---- MODULE Spec2Model ----
(***************************************************************************)
(* State storage of the teleport agent.                                    *)
(*                                                                         *)
(*   Spec      the embedded engine (package lite): the kv table, the       *)
(*             events table and the background loop runPeriodicOperations  *)
(*             with its three jobs, interleaved with foreground writes.    *)
(*   KubeSpec  the Kubernetes Secret backend (package kubernetes): callers *)
(*             of one process serialized by mu, and a writer of another    *)
(*             process, against one versioned secret.                      *)
(*   BootSpec  NewProcessStorage (package auth): the selection of the      *)
(*             state backend and the copy of the engine's items into the   *)
(*             secret, over restarts of the process.                       *)
(*   AliasSpec replaceSpecialArgs of tsh, applied to its arguments.        *)
(*   ChainSpec tryRunAlias of tsh over nested alias invocations.           *)
(*                                                                         *)
(* LiveSpec, SweepLiveSpec and PollLiveSpec are the loop of the engine     *)
(* under fairness; PutRaceSpec, StoredSpec and RebootSpec are the Secret   *)
(* backend and NewProcessStorage from particular situations.               *)
(*                                                                         *)
(* Time is counted in abstract clock units.  Every SQL transaction is one  *)
(* atomic step; a transaction that fails changes nothing in the database.  *)
(***************************************************************************)
EXTENDS Integers, Sequences, FiniteSets, TLC

(***************************************************************************)
(* Bounds of the model.                                                    *)
(***************************************************************************)
MaxTime == 1
MaxEvents == 2
MaxBufferSize == 4
MaxVersion == 3

(***************************************************************************)
(* Program constants.                                                      *)
(***************************************************************************)
\* const notSet = -2
notSet == -2
\* NullTime with Valid = false: the kv row has no expiry (expires IS NULL).
NoExpiry == -1
\* backend.DefaultEventsTTL, in clock units.
DefaultEventsTTL == 1
\* Keys of the kv table, in key order.
Keys == {1, 2}
\* Configured buffer sizes: a sweep batch of 1 with a poll limit of 1, and a
\* sweep batch of MaxBufferSize with a poll limit of MaxBufferSize \div 2.
BufferSizes == {1, MaxBufferSize}
Expiries == {NoExpiry} \cup (1..MaxTime)
\* Item.Value of the items written to the engine.
LiteValues == {"a"}

VARIABLES
    \* ---- package lite ----
    BufferSize,   \* l.BufferSize
    Mirror,       \* l.Mirror
    EventsOff,    \* l.EventsOff
    now,          \* l.clock.Now()
    kv,           \* table kv: key -> [expires, value]
    events,       \* table events: set of rows [id, created]
    nextId,       \* the next AUTOINCREMENT id of table events
    rowid,        \* the cursor of runPeriodicOperations
    pc,           \* position of the background loop
    ticks,        \* ticks buffered in t.C (capacity 1)
    cancelled,    \* l.ctx is done
    delivered,    \* ids of all events pushed to l.buf, in push order
    lastBatch,    \* ids of the last batch given to l.buf.PushBatch
    pushes,       \* 0: PushBatch never called, 1: called
    watchStarts,  \* calls of l.signalWatchStart (saturating at 2)
    seeded,       \* the value the cursor was seeded with, notSet before
    seedMax,      \* largest event id seen by the seeding query, 0 if none
    lost,         \* ids deleted by removeOldEvents that the cursor had not passed
    swept,        \* outcome of removeExpiredKeys, until the next job overwrites err
    polled,       \* outcome of pollEvents in the current tick
    unpushed,     \* ids a failed read of pollEvents left unpushed, until pushed
    \* ---- package kubernetes ----
    secretExists,     \* the secret b.secretName exists in the cluster
    secretData,       \* its StringData: key -> value
    resourceVersion,  \* its ResourceVersion
    mu,               \* b.mu of each process: 0 when free, else the holder
    call,             \* the call each caller is executing
    acked,            \* key -> value of the latest accepted update of the key
    lastRet,          \* the call that returned in the latest step, with its result
    \* ---- package auth ----
    boot,             \* position of NewProcessStorage and its copy loop
    \* ---- tsh aliases ----
    argsGiven,        \* the runtime arguments given to replaceSpecialArgs
    aliasParams,      \* the defined arguments of the alias
    got,              \* what replaceSpecialArgs returned
    tsh               \* the tsh process that is about to call tryRunAlias

liteVars == <<BufferSize, Mirror, EventsOff, now, kv, events, nextId, rowid, pc,
              ticks, cancelled, delivered, lastBatch, pushes, watchStarts,
              seeded, seedMax, lost, swept, polled, unpushed>>

kubeVars == <<secretExists, secretData, resourceVersion, mu, call, acked, lastRet>>

bootVars == <<boot>>

aliasVars == <<argsGiven, aliasParams, got, tsh>>

vars == <<liteVars, kubeVars, bootVars, aliasVars>>

(***************************************************************************)
(* Helpers.                                                                *)
(***************************************************************************)
SetMin(S) == CHOOSE x \in S : \A y \in S : x <= y
SetMax(S) == CHOOSE x \in S : \A y \in S : x >= y

RECURSIVE OrderBy(_)
\* ORDER BY on an integer column: the ascending sequence of a set of integers.
OrderBy(S) == IF S = {} THEN <<>> ELSE <<SetMin(S)>> \o OrderBy(S \ {SetMin(S)})

\* LIMIT n
Limit(s, n) == IF Len(s) <= n THEN s ELSE SubSeq(s, 1, n)

Range(s) == {s[i] : i \in 1..Len(s)}

EventIds == {e.id : e \in events}

\* Mutant of Expired: an item with no expiry counts as expired.
Expired_Null(e, t) == e <= t

\* expires <= ? : a NULL expires never compares true.
Expired(e, t) == e # NoExpiry /\ e <= t

(***************************************************************************)
(* Foreground operations of the engine.                                    *)
(***************************************************************************)
\* INSERT INTO events: one row per key of keySeq, each with the next id; ids
\* are never reused.  Of a row the table keeps id and created, the columns
\* the loop selects on.
AppendEvents(evs, first, type, keySeq, t) ==
    evs \cup {[id |-> first + i - 1, created |-> t] : i \in 1..Len(keySeq)}

LitePut(k, e) ==
    /\ pc # "closed"
    /\ nextId <= MaxEvents
    /\ \E v \in LiteValues :
         kv' = [x \in DOMAIN kv \cup {k} |->
                  IF x = k THEN [expires |-> e, value |-> v] ELSE kv[x]]
    /\ IF EventsOff
         THEN UNCHANGED <<events, nextId>>
         ELSE /\ events' = AppendEvents(events, nextId, "PUT", <<k>>, now)
              /\ nextId' = nextId + 1
    /\ UNCHANGED <<kubeVars, bootVars, aliasVars, unpushed>>
    /\ UNCHANGED <<BufferSize, Mirror, EventsOff, now, rowid, pc, ticks, cancelled,
                   delivered, lastBatch, pushes, watchStarts, seeded, seedMax,
                   lost, swept, polled>>

\* deleteInTransaction: removes the row and records a DELETE event.
DeleteKeys(tab, ks) == [x \in DOMAIN tab \ ks |-> tab[x]]

LiteDelete(k) ==
    /\ pc # "closed"
    /\ nextId <= MaxEvents
    /\ k \in DOMAIN kv
    /\ kv' = DeleteKeys(kv, {k})
    /\ IF EventsOff
         THEN UNCHANGED <<events, nextId>>
         ELSE /\ events' = AppendEvents(events, nextId, "DELETE", <<k>>, now)
              /\ nextId' = nextId + 1
    /\ UNCHANGED <<kubeVars, bootVars, aliasVars, unpushed>>
    /\ UNCHANGED <<BufferSize, Mirror, EventsOff, now, rowid, pc, ticks, cancelled,
                   delivered, lastBatch, pushes, watchStarts, seeded, seedMax,
                   lost, swept, polled>>

\* l.clock advances.
AdvanceClock ==
    /\ now < MaxTime
    /\ now' = now + 1
    /\ UNCHANGED <<kubeVars, bootVars, aliasVars, unpushed>>
    /\ UNCHANGED <<BufferSize, Mirror, EventsOff, kv, events, nextId, rowid, pc,
                   ticks, cancelled, delivered, lastBatch, pushes, watchStarts,
                   seeded, seedMax, lost, swept, polled>>

(***************************************************************************)
(* runPeriodicOperations.                                                  *)
(***************************************************************************)
\* t.C, the channel of time.NewTicker, holds one tick.
ChanCap == 1

\* Mutant of SendTick: ticks that find t.C full are queued.
SendTick_Queue(n) == n + 1

\* The ticker's send on t.C does not block: a tick that finds t.C full is dropped.
SendTick(n) == IF n < ChanCap THEN n + 1 ELSE n

\* The ticker fires.
TimerFire ==
    /\ pc # "closed"
    /\ ticks' = SendTick(ticks)
    /\ UNCHANGED <<kubeVars, bootVars, aliasVars, unpushed>>
    /\ UNCHANGED <<BufferSize, Mirror, EventsOff, now, kv, events, nextId, rowid,
                   pc, cancelled, delivered, lastBatch, pushes, watchStarts,
                   seeded, seedMax, lost, swept, polled>>

\* The context of the backend is cancelled.
Cancel ==
    /\ ~cancelled
    /\ cancelled' = TRUE
    /\ UNCHANGED <<kubeVars, bootVars, aliasVars, unpushed>>
    /\ UNCHANGED <<BufferSize, Mirror, EventsOff, now, kv, events, nextId, rowid,
                   pc, ticks, delivered, lastBatch, pushes, watchStarts,
                   seeded, seedMax, lost, swept, polled>>

\* Mutant of CtxDone: the select has no case for l.ctx.Done().
CtxDone_Never == FALSE

\* Mutant of CtxDone: the loop also returns after an error of pollEvents.
CtxDone_OrPollError == cancelled \/ polled = "err"

\* <-l.ctx.Done() is ready.
CtxDone == cancelled

\* case <-l.ctx.Done(): l.closeDatabase(); return
LoopDone ==
    /\ pc = "idle"
    /\ CtxDone
    /\ pc' = "closed"
    /\ UNCHANGED <<kubeVars, bootVars, aliasVars, unpushed>>
    /\ UNCHANGED <<BufferSize, Mirror, EventsOff, now, kv, events, nextId, rowid,
                   ticks, cancelled, delivered, lastBatch, pushes, watchStarts,
                   seeded, seedMax, lost, swept, polled>>

\* No removeExpiredKeys result is held: err is overwritten by the next job.
NotSwept == [res |-> "none", keys |-> {}, left |-> {}]

\* case <-t.C:
LoopTick ==
    /\ pc = "idle"
    /\ ticks >= 1
    /\ ticks' = ticks - 1
    /\ pc' = "expire"
    /\ swept' = NotSwept
    /\ polled' = "none"
    /\ UNCHANGED <<kubeVars, bootVars, aliasVars, unpushed>>
    /\ UNCHANGED <<BufferSize, Mirror, EventsOff, now, kv, events, nextId, rowid,
                   cancelled, delivered, lastBatch, pushes, watchStarts,
                   seeded, seedMax, lost>>

\* Mutant of AfterExpire: the EventsOff check is missing.
AfterExpire_EventsOn == "retain"

\* if !l.EventsOff { ... }
AfterExpire == IF EventsOff THEN "idle" ELSE "retain"

\* Mutant of ExpiredKeys: ORDER BY key DESC
ExpiredKeys_Desc(t) ==
    LET all == OrderBy({k \in DOMAIN kv : Expired(kv[k].expires, t)})
    IN  IF Len(all) <= BufferSize THEN all
        ELSE SubSeq(all, Len(all) - BufferSize + 1, Len(all))

\* Mutant of ExpiredKeys: WHERE expires < ?
ExpiredKeys_Strict(t) ==
    Limit(OrderBy({k \in DOMAIN kv : kv[k].expires # NoExpiry /\ kv[k].expires < t}),
          BufferSize)

\* SELECT key FROM kv WHERE expires <= ? ORDER BY key LIMIT ?
ExpiredKeys(t) ==
    Limit(OrderBy({k \in DOMAIN kv : Expired(kv[k].expires, t)}), BufferSize)

\* A transaction on a cancelled context fails.
TxOutcomes == IF cancelled THEN {"err"} ELSE {"ok", "err"}

\* Mutant of RolledBack: the first delete of a failed transaction stays.
RolledBack_First(keys) == IF keys = <<>> THEN {} ELSE {Head(keys)}

\* The deletes of keys that remain when the transaction of the sweep fails:
\* none, the transaction is rolled back.
RolledBack(keys) == {}

\* Mutant of MirrorSkip: the mirror check is missing.
MirrorSkip_Never == FALSE

\* Mutant of MirrorSkip: the sweep returns at once in every engine.
MirrorSkip_Always == TRUE

\* if l.Mirror { return nil }
MirrorSkip == Mirror

removeExpiredKeys ==
    /\ pc = "expire"
    /\ pc' = AfterExpire
    /\ IF MirrorSkip
         THEN /\ swept' = [res |-> "mirror", keys |-> {}, left |-> {}]
              /\ UNCHANGED <<kv, events, nextId>>
         ELSE \E res \in TxOutcomes :
                LET keys == ExpiredKeys(now) IN
                IF res = "ok"
                  THEN /\ kv' = DeleteKeys(kv, Range(keys))
                       /\ IF EventsOff
                            THEN UNCHANGED <<events, nextId>>
                            ELSE /\ events' = AppendEvents(events, nextId, "DELETE",
                                                           keys, now)
                                 /\ nextId' = nextId + Len(keys)
                       /\ swept' = [res |-> "ok", keys |-> Range(keys),
                                    left |-> {k \in DOMAIN kv' :
                                                Expired(kv'[k].expires, now)}]
                  ELSE /\ swept' = [res |-> "err", keys |-> {}, left |-> {}]
                       /\ kv' = DeleteKeys(kv, RolledBack(keys))
                       /\ UNCHANGED <<events, nextId>>
    /\ UNCHANGED <<kubeVars, bootVars, aliasVars, unpushed>>
    /\ UNCHANGED <<BufferSize, Mirror, EventsOff, now, rowid, ticks, cancelled,
                   delivered, lastBatch, pushes, watchStarts, seeded, seedMax, lost,
                   polled>>

\* Mutant of OldEvents: DefaultEventsTTL is not subtracted from the time.
OldEvents_NoWindow(t) == {e \in events : e.created <= t}

\* DELETE FROM events WHERE created <= ?
OldEvents(t) == {e \in events : e.created <= t - DefaultEventsTTL}

removeOldEvents ==
    /\ pc = "retain"
    /\ pc' = "poll"
    /\ \E res \in TxOutcomes :
         IF res = "ok"
           THEN /\ events' = events \ OldEvents(now)
                /\ lost' = lost \cup {e.id : e \in {x \in OldEvents(now) :
                                                      x.id > rowid}}
           ELSE UNCHANGED <<events, lost>>
    /\ swept' = NotSwept
    /\ UNCHANGED <<kubeVars, bootVars, aliasVars, unpushed>>
    /\ UNCHANGED <<BufferSize, Mirror, EventsOff, now, kv, nextId, rowid, ticks,
                   cancelled, delivered, lastBatch, pushes, watchStarts, seeded,
                   seedMax, polled>>

\* Mutant of SeedRowid: the cursor starts at the largest id, not below it.
SeedRowid_Max == IF events = {} THEN -1 ELSE SetMax(EventIds)

\* SELECT id from events ORDER BY id DESC LIMIT 1; sql.ErrNoRows gives -1.
SeedRowid == IF events = {} THEN -1 ELSE SetMax(EventIds) - 1

\* pollEvents with rowid == notSet: the seeding transaction.  "err" fails before
\* the row is scanned, "commit" fails after the closure has assigned rowid.
pollEventsSeed ==
    /\ pc = "poll"
    /\ rowid = notSet
    /\ \E res \in (TxOutcomes \cup {"commit"}) :
         CASE res = "ok" ->
                /\ rowid' = SeedRowid
                /\ seeded' = SeedRowid
                /\ seedMax' = IF events = {} THEN 0 ELSE SetMax(EventIds)
                /\ watchStarts' = IF watchStarts < 2 THEN watchStarts + 1 ELSE 2
                /\ pc' = "query"
                /\ UNCHANGED polled
           [] res = "commit" ->
                /\ rowid' = SeedRowid
                /\ seeded' = SeedRowid
                /\ seedMax' = IF events = {} THEN 0 ELSE SetMax(EventIds)
                /\ pc' = "idle"
                /\ polled' = "err"
                /\ UNCHANGED watchStarts
           [] OTHER ->
                /\ pc' = "idle"
                /\ polled' = "err"
                /\ UNCHANGED <<rowid, seeded, seedMax, watchStarts>>
    /\ UNCHANGED <<kubeVars, bootVars, aliasVars, unpushed>>
    /\ UNCHANGED <<BufferSize, Mirror, EventsOff, now, kv, events, nextId, ticks,
                   cancelled, delivered, lastBatch, pushes, lost, swept>>

\* Mutant of PollLimit: the limit is not raised to 1.
PollLimit_NoMin == BufferSize \div 2

\* limit := l.BufferSize / 2; if limit <= 0 { limit = 1 }
PollLimit == IF BufferSize \div 2 <= 0 THEN 1 ELSE BufferSize \div 2

\* Mutant of PollRows: WHERE id >= ?
PollRows_Inclusive(cursor) ==
    Limit(OrderBy({i \in EventIds : i >= cursor}), PollLimit)

\* Mutant of PollRows: the newest rows are kept by LIMIT, not the oldest.
PollRows_Newest(cursor) ==
    LET all == OrderBy({i \in EventIds : i > cursor})
    IN  IF Len(all) <= PollLimit THEN all
        ELSE SubSeq(all, Len(all) - PollLimit + 1, Len(all))

\* SELECT ... FROM events WHERE id > ? ORDER BY id LIMIT ?
PollRows(cursor) == Limit(OrderBy({i \in EventIds : i > cursor}), PollLimit)

\* Mutant of NextRowid: lastID is returned also for an empty batch.
NextRowid_LastID(rows, cursor) == IF Len(rows) # 0 THEN rows[Len(rows)] ELSE 0

\* if len(events) != 0 { return lastID, nil }; return rowid, nil
NextRowid(rows, cursor) == IF Len(rows) # 0 THEN rows[Len(rows)] ELSE cursor

\* Mutant of Pushed: a batch of several rows is pushed without its last row.
Pushed_Part(rows) == IF Len(rows) >= 2 THEN SubSeq(rows, 1, Len(rows) - 1) ELSE rows

\* l.buf.PushBatch(events): all rows appended by the closure, in one call.
Pushed(rows) == rows

\* pollEvents: the reading transaction, PushBatch and the returned cursor.
pollEventsQuery ==
    /\ \/ pc = "query"
       \/ pc = "poll" /\ rowid # notSet
    /\ pc' = "idle"
    /\ \E res \in TxOutcomes :
         IF res = "ok"
           THEN LET rows == PollRows(rowid) IN
                /\ lastBatch' = Pushed(rows)
                /\ pushes' = 1
                /\ delivered' = delivered \o Pushed(rows)
                /\ rowid' = NextRowid(rows, rowid)
                /\ polled' = "ok"
                /\ unpushed' = unpushed \ Range(Pushed(rows))
           ELSE /\ polled' = "err"
                /\ unpushed' = unpushed \cup Range(PollRows(rowid))
                /\ UNCHANGED <<lastBatch, pushes, delivered, rowid>>
    /\ UNCHANGED <<kubeVars, bootVars, aliasVars>>
    /\ UNCHANGED <<BufferSize, Mirror, EventsOff, now, kv, events, nextId, ticks,
                   cancelled, watchStarts, seeded, seedMax, lost, swept>>

(***************************************************************************)
(* Package kubernetes: the Secret backend.                                 *)
(*                                                                         *)
(* The API server keeps one secret: a mapping and a resource version.  A   *)
(* read returns both; an apply that presents a resource version is         *)
(* rejected unless it is the current one; an apply that presents none      *)
(* (createSecret) is an upsert of the mapping it carries.  Callers 1 and 2 *)
(* use the Backend of one process and share its mu; caller 3 is a Backend  *)
(* of another process writing the same secret.                             *)
(***************************************************************************)
LocalCallers == {1, 2}
RemoteCallers == {3}
Callers == LocalCallers \cup RemoteCallers
Proc(c) == IF c \in LocalCallers THEN 1 ELSE 2
Procs == {1, 2}

\* Item.Value, as the string stored in StringData.
Values == {"", "a", "b"}

\* Values written by the other process.
RemoteValues == {"a"}

Mutators == {"Put", "Create", "PutItems"}

NoItems == [k \in {} |-> ""]
\* wiped: the keys of the mappings the call has replaced by the empty one.
NoCall == [pc |-> "idle", op |-> "none", items |-> NoItems, i |-> 0, fetches |-> 0,
           data |-> NoItems, version |-> 0, wiped |-> {}]

\* errors.New("key not found")
ErrKeyNotFound == [type |-> "errors.errorString", msg |-> "key not found"]
\* trace.Wrap(err) of an error of the client: the error keeps its type.
ErrGetSecret == [type |-> "apierrors.StatusError", msg |-> "get secret"]
ErrCreateSecret == [type |-> "apierrors.StatusError", msg |-> "create secret"]
ErrUpdateSecret == [type |-> "apierrors.StatusError", msg |-> "update secret"]
ErrNil == [type |-> "nil", msg |-> ""]

\* No call returned in the latest step.
NoRet == [op |-> "none", res |-> "none", err |-> ErrNil, found |-> "none",
          rejected |-> 0, fetches |-> 0, wiped |-> {}]

\* trace.IsNotFound(err)
IsNotFound(err) == err.type = "trace.NotFoundError"

\* Mutant of Locked: the methods do not take b.mu.
Locked_NoMutex(c) == TRUE

\* b.mu.Lock() at the entry of every exported method.
Locked(c) == mu[Proc(c)] = 0

Begin(c, op, items) ==
    /\ call[c].pc = "idle"
    /\ Locked(c)
    /\ mu' = [mu EXCEPT ![Proc(c)] = c]
    /\ call' = [call EXCEPT ![c] = [NoCall EXCEPT !.pc = "get", !.op = op,
                                                  !.items = items]]
    /\ lastRet' = NoRet
    /\ UNCHANGED <<secretExists, secretData, resourceVersion, acked>>
    /\ UNCHANGED liteVars

Exists(c) == Begin(c, "Exists", NoItems)

Get(c, k) == Begin(c, "Get", [x \in {k} |-> ""])

Create(c, k, v) == Begin(c, "Create", [x \in {k} |-> v])

Put(c, k, v) == Begin(c, "Put", [x \in {k} |-> v])

PutItems(c, items) == Begin(c, "PutItems", items)

\* b.getSecret: the outcomes of the read of the secret.
GetOutcomes == IF secretExists THEN {"ok", "err"} ELSE {"notfound"}

\* The deferred b.mu.Unlock() and the return of the call.
Return(c, res, err, found) ==
    /\ mu' = [mu EXCEPT ![Proc(c)] = 0]
    /\ call' = [call EXCEPT ![c] = NoCall]
    /\ lastRet' = [op |-> call[c].op, res |-> res, err |-> err, found |-> found,
                   rejected |-> IF err = ErrUpdateSecret THEN call[c].i + 1 ELSE call[c].i,
                   fetches |-> call[c].fetches, wiped |-> call[c].wiped]

\* Exists: _, err := b.getSecret(ctx); return err == nil
ExistsReturn(c) ==
    /\ call[c].pc = "get"
    /\ call[c].op = "Exists"
    /\ \E o \in GetOutcomes :
         Return(c, IF o = "ok" THEN "true" ELSE "false", ErrNil, o)
    /\ UNCHANGED <<secretExists, secretData, resourceVersion, acked>>
    /\ UNCHANGED liteVars

\* Mutant of KeyFound: an empty value counts as found.
KeyFound_AllowEmpty(data, k) == k \in DOMAIN data

\* data, ok := secret.StringData[string(key)]; if !ok || len(data) == 0
KeyFound(data, k) == k \in DOMAIN data /\ data[k] # ""

readSecretData(c) ==
    /\ call[c].pc = "get"
    /\ call[c].op = "Get"
    /\ \E o \in GetOutcomes :
         LET k == CHOOSE x \in DOMAIN call[c].items : TRUE IN
         IF o # "ok"
           THEN Return(c, "error", ErrGetSecret, o)
           ELSE IF ~KeyFound(secretData, k)
                  THEN Return(c, "error", ErrKeyNotFound,
                              IF k \in DOMAIN secretData THEN "empty" ELSE "absent")
                  ELSE Return(c, secretData[k], ErrNil, "present")
    /\ UNCHANGED <<secretExists, secretData, resourceVersion, acked>>
    /\ UNCHANGED liteVars

\* for i := 0; i < 3; i++
MaxAttempts == 3

\* updateSecretContent: secret, err = b.getSecret(ctx)
updateSecretContentGet(c) ==
    /\ call[c].pc = "get"
    /\ call[c].op \in Mutators
    /\ \E o \in GetOutcomes :
         IF o = "ok"
           THEN call' = [call EXCEPT ![c].pc = "update",
                                     ![c].fetches = call[c].fetches + 1,
                                     ![c].data = secretData,
                                     ![c].version = resourceVersion]
           ELSE call' = [call EXCEPT ![c].pc = "create"]
    /\ lastRet' = NoRet
    /\ UNCHANGED <<secretExists, secretData, resourceVersion, mu, acked>>
    /\ UNCHANGED liteVars

\* createSecret: Apply of an empty StringData, with no resource version.
createSecret(c) ==
    /\ call[c].pc = "create"
    /\ \/ /\ resourceVersion < MaxVersion
          /\ secretExists' = TRUE
          /\ secretData' = NoItems
          /\ resourceVersion' = resourceVersion + 1
          /\ call' = [call EXCEPT ![c].pc = "update",
                                  ![c].fetches = call[c].fetches + 1,
                                  ![c].data = NoItems,
                                  ![c].version = resourceVersion + 1,
                                  ![c].wiped = call[c].wiped
                                                 \cup (IF secretExists
                                                         THEN DOMAIN secretData
                                                         ELSE {})]
          /\ lastRet' = NoRet
          /\ UNCHANGED mu
       \/ /\ Return(c, "error", ErrCreateSecret, "none")
          /\ UNCHANGED <<secretExists, secretData, resourceVersion>>
    /\ UNCHANGED acked
    /\ UNCHANGED liteVars

\* Mutant of SetItems: only the first of the items is set before the apply.
SetItems_First(data, items) ==
    LET k == SetMin(DOMAIN items) IN
    [j \in DOMAIN data \cup {k} |-> IF j = k THEN items[k] ELSE data[j]]

\* for _, item := range items { secret.StringData[string(item.Key)] = ... }
SetItems(data, items) ==
    [k \in DOMAIN data \cup DOMAIN items |->
        IF k \in DOMAIN items THEN items[k] ELSE data[k]]

\* The API server accepts an apply that presents the current resource version.
ApplyAccepted(version) == secretExists /\ version = resourceVersion

\* Mutant of Retry: the loop runs a fourth round.
Retry_Four(i) == i + 1 < MaxAttempts + 1

\* if err == nil { break }, else the next round of the loop, if any.
Retry(i) == i + 1 < MaxAttempts

\* updateSecretContent: the mutation of StringData and b.updateSecret.
updateSecret(c) ==
    /\ call[c].pc = "update"
    /\ \/ /\ ApplyAccepted(call[c].version)
          /\ resourceVersion < MaxVersion
          /\ secretData' = SetItems(call[c].data, call[c].items)
          /\ resourceVersion' = resourceVersion + 1
          /\ acked' = SetItems(acked, call[c].items)
          /\ Return(c, "ok", ErrNil, "none")
          /\ UNCHANGED secretExists
       \/ /\ IF Retry(call[c].i)
               THEN /\ call' = [call EXCEPT ![c].pc = "get", ![c].i = call[c].i + 1]
                    /\ lastRet' = NoRet
                    /\ UNCHANGED mu
               ELSE Return(c, "error", ErrUpdateSecret, "none")
          /\ UNCHANGED <<secretExists, secretData, resourceVersion, acked>>
    /\ UNCHANGED liteVars


\* NewProcessStorage has not been called.  made: what the run has constructed;
\* ranged, read: the prefixes GetRange was called for and returned for;
\* tried: the keys Put was called for; partial: an earlier run ended with
\* some but not all items in the secret.
NoBoot == [pc |-> "start", prefixes |-> <<>>, items |-> <<>>, runs |-> 0,
           existed |-> FALSE, path |-> "", probe |-> FALSE, err |-> "nil",
           made |-> {}, identityStorage |-> "nil", ranged |-> {}, read |-> {},
           tried |-> {}, partial |-> FALSE]

\* replaceSpecialArgs has not been called.
NotCalled == [called |-> FALSE, out |-> <<>>, err |-> "nil"]

\* No tsh process.  aliases: the aliases of the configuration, name ->
\* parsed definition; args: the arguments of the process; env: its TSH_ALIAS;
\* chain: the aliases run so far, outermost first; ran, err: what the
\* innermost tryRunAlias returned.
NoTsh == [pc |-> "none", aliases |-> <<>>, args |-> <<>>, env |-> <<>>,
          chain |-> <<>>, ran |-> FALSE, err |-> "nil"]

AliasStart ==
    /\ argsGiven = <<>>
    /\ aliasParams = <<>>
    /\ got = NotCalled
    /\ tsh = NoTsh

\* No secret yet, no call in progress.
KubeStart ==
    /\ secretExists = FALSE
    /\ secretData = NoItems
    /\ resourceVersion = 0
    /\ mu = [p \in Procs |-> 0]
    /\ call = [c \in Callers |-> NoCall]
    /\ acked = NoItems
    /\ lastRet = NoRet
    /\ boot = NoBoot

Init ==
    /\ BufferSize \in BufferSizes
    /\ Mirror \in BOOLEAN
    /\ EventsOff \in BOOLEAN
    /\ now = 0
    /\ kv = <<>>
    /\ events = {}
    /\ nextId = 1
    /\ rowid = notSet
    /\ pc = "idle"
    /\ ticks = 0
    /\ cancelled = FALSE
    /\ delivered = <<>>
    /\ lastBatch = <<>>
    /\ pushes = 0
    /\ watchStarts = 0
    /\ seeded = notSet
    /\ seedMax = 0
    /\ lost = {}
    /\ swept = NotSwept
    /\ polled = "none"
    /\ unpushed = {}
    /\ KubeStart
    /\ AliasStart

\* The engine and its loop while l.ctx is live; LoopNext adds the cancellation.
Next ==
    \/ \E k \in Keys, e \in Expiries : LitePut(k, e)
    \/ \E k \in Keys : LiteDelete(k)
    \/ AdvanceClock
    \/ TimerFire
    \/ LoopTick
    \/ removeExpiredKeys
    \/ removeOldEvents
    \/ pollEventsSeed
    \/ pollEventsQuery

Spec == Init /\ [][Next]_vars

(***************************************************************************)
(* The background loop with the cancellation of l.ctx, under fair          *)
(* scheduling.  A job that has started returns, and the select, which      *)
(* picks among its ready cases at random, does not ignore a ready          *)
(* l.ctx.Done() forever.                                                   *)
(***************************************************************************)
LoopNext ==
    \/ \E k \in Keys : LitePut(k, NoExpiry)
    \/ AdvanceClock
    \/ TimerFire
    \/ Cancel
    \/ LoopDone
    \/ LoopTick
    \/ removeExpiredKeys
    \/ removeOldEvents
    \/ pollEventsSeed
    \/ pollEventsQuery

LoopFair ==
    /\ WF_vars(removeExpiredKeys \/ removeOldEvents \/ pollEventsSeed
                 \/ pollEventsQuery)
    /\ SF_vars(LoopDone)

LiveSpec == Init /\ [][LoopNext]_vars /\ LoopFair

\* The engine as NewProcessStorage configures it, at rest.
KubeInit ==
    /\ BufferSize = MaxBufferSize
    /\ Mirror = FALSE
    /\ EventsOff = TRUE
    /\ now = 0
    /\ kv = <<>>
    /\ events = {}
    /\ nextId = 1
    /\ rowid = notSet
    /\ pc = "idle"
    /\ ticks = 0
    /\ cancelled = FALSE
    /\ delivered = <<>>
    /\ lastBatch = <<>>
    /\ pushes = 0
    /\ watchStarts = 0
    /\ seeded = notSet
    /\ seedMax = 0
    /\ lost = {}
    /\ swept = NotSwept
    /\ polled = "none"
    /\ unpushed = {}
    /\ KubeStart
    /\ AliasStart

\* Item lists given to PutItems.
ItemLists == {[k \in Keys |-> v] : v \in {"a", "b"}}

KubeNext ==
    \/ \E c \in LocalCallers : Exists(c) /\ UNCHANGED <<bootVars, aliasVars>>
    \/ \E c \in LocalCallers, k \in Keys : Get(c, k) /\ UNCHANGED <<bootVars, aliasVars>>
    \/ \E c \in LocalCallers, k \in Keys, v \in Values : Create(c, k, v) /\ UNCHANGED <<bootVars, aliasVars>>
    \/ \E c \in LocalCallers, k \in Keys, v \in Values : Put(c, k, v) /\ UNCHANGED <<bootVars, aliasVars>>
    \/ \E c \in RemoteCallers, k \in Keys, v \in RemoteValues : Put(c, k, v) /\ UNCHANGED <<bootVars, aliasVars>>
    \/ \E c \in LocalCallers, items \in ItemLists : PutItems(c, items) /\ UNCHANGED <<bootVars, aliasVars>>
    \/ \E c \in Callers : ExistsReturn(c) /\ UNCHANGED <<bootVars, aliasVars>>
    \/ \E c \in Callers : readSecretData(c) /\ UNCHANGED <<bootVars, aliasVars>>
    \/ \E c \in Callers : updateSecretContentGet(c) /\ UNCHANGED <<bootVars, aliasVars>>
    \/ \E c \in Callers : createSecret(c) /\ UNCHANGED <<bootVars, aliasVars>>
    \/ \E c \in Callers : updateSecret(c) /\ UNCHANGED <<bootVars, aliasVars>>

KubeSpec == KubeInit /\ [][KubeNext]_vars

(***************************************************************************)
(* Package auth: NewProcessStorage in a Kubernetes cluster.                *)
(*                                                                         *)
(* Caller 1 is the goroutine that runs NewProcessStorage; caller 2 is the  *)
(* process using the storage after NewProcessStorage has returned.  The    *)
(* engine file outlives the process, the Backend and its mu do not.        *)
(***************************************************************************)
MaxRuns == 2

\* Keys of the engine: two under idsPrefix, one under statesPrefix, one under
\* neither.
idsPrefix == "ids"
statesPrefix == "states"
BootKeys == {1, 2, 3, 4}
Prefix(k) == CASE k \in {1, 4} -> idsPrefix [] k = 2 -> statesPrefix [] OTHER -> "other"

\* The items copyDataFromLocalIntoKube is called for.
Migrated == {k \in DOMAIN kv : Prefix(k) \in {idsPrefix, statesPrefix}}

\* litebk.GetRange(ctx, backend.Key(prefix), backend.RangeEnd(...), NoLimit)
GetRange(prefix) == OrderBy({k \in DOMAIN kv : Prefix(k) = prefix})

\* The path argument of NewProcessStorage.
Paths == {"", "/var/lib/teleport"}

\* Mutant of IdentityStorage: the engine is the state backend in a cluster too.
IdentityStorage_AlwaysLite(inKube) == "litebk"

\* if kubernetes.InKubeCluster() { identityStorage = kubeSecret }
\* else { identityStorage = litebk }
IdentityStorage(inKube) == IF inKube THEN "kubeSecret" ELSE "litebk"

\* NewProcessStorage up to kubeSecret.Exists(ctx): the path check,
\* lite.NewWithConfig, kubernetes.InKubeCluster() and kubernetes.New().
NewProcessStorage ==
    /\ boot.pc = "start"
    /\ UNCHANGED aliasVars
    /\ \E path \in Paths, lite \in {"ok", "err"}, inKube \in BOOLEAN,
          new \in {"ok", "err"} :
         LET run == [boot EXCEPT !.runs = boot.runs + 1, !.path = path] IN
         IF path = ""
           THEN /\ boot' = [run EXCEPT !.pc = "failed", !.err = "BadParameter"]
                /\ UNCHANGED <<liteVars, kubeVars>>
           ELSE IF lite = "err"
             THEN /\ boot' = [run EXCEPT !.pc = "failed", !.err = "lite"]
                  /\ UNCHANGED <<liteVars, kubeVars>>
             ELSE IF ~inKube
               THEN /\ boot' = [run EXCEPT !.pc = "done", !.made = {"litebk"},
                                           !.identityStorage = IdentityStorage(inKube)]
                    /\ UNCHANGED <<liteVars, kubeVars>>
               ELSE IF new = "err"
                 THEN /\ boot' = [run EXCEPT !.pc = "failed", !.err = "kube",
                                             !.probe = TRUE, !.made = {"litebk"}]
                      /\ UNCHANGED <<liteVars, kubeVars>>
                 ELSE /\ Exists(1)
                      /\ boot' = [run EXCEPT !.pc = "exists", !.probe = TRUE,
                                             !.made = {"litebk", "kubeSecret"}]

\* if !kubeSecret.Exists(ctx) { compatibilityLayer(ctx, kubeSecret, litebk) }
ExistsChecked ==
    /\ boot.pc = "exists"
    /\ UNCHANGED aliasVars
    /\ ExistsReturn(1)
    /\ boot' = [boot EXCEPT !.pc = IF lastRet'.res = "true" THEN "done" ELSE "copy",
                            !.prefixes = IF lastRet'.res = "true" THEN <<>>
                                         ELSE <<idsPrefix, statesPrefix>>,
                            !.identityStorage = IF lastRet'.res = "true"
                                                  THEN IdentityStorage(boot.probe)
                                                  ELSE "nil",
                            !.existed = secretExists]

\* copyDataFromLocalIntoKube: the GetRange of the next prefix; on an error the
\* prefix is skipped.
copyDataFromLocalIntoKube ==
    /\ boot.pc = "copy"
    /\ UNCHANGED aliasVars
    /\ boot.prefixes # <<>>
    /\ \E res \in {"ok", "err"} :
         boot' = [boot EXCEPT !.pc = "put",
                              !.prefixes = Tail(boot.prefixes),
                              !.ranged = @ \cup {Head(boot.prefixes)},
                              !.read = IF res = "ok" THEN @ \cup {Head(boot.prefixes)}
                                       ELSE @,
                              !.items = IF res = "ok"
                                          THEN GetRange(Head(boot.prefixes))
                                          ELSE <<>>]
    /\ UNCHANGED <<liteVars, kubeVars>>

\* Mutant of Remaining: an error of Put ends the range loop.
Remaining_StopOnError(items, err) == IF err = ErrNil THEN items ELSE <<>>

\* if _, err := stateBk.Put(ctx, item); err != nil { _ = err }: the error is
\* dropped and the range loop goes on with the items left.
Remaining(items, err) == items

\* for _, item := range results.Items { stateBk.Put(ctx, item) }
CopyPut ==
    /\ boot.pc = "put"
    /\ UNCHANGED aliasVars
    /\ Remaining(boot.items, lastRet.err) # <<>>
    /\ Put(1, Head(boot.items), kv[Head(boot.items)].value)
    /\ boot' = [boot EXCEPT !.items = Tail(boot.items),
                            !.tried = @ \cup {Head(boot.items)}]

\* The end of the range loop; after the second prefix NewProcessStorage returns.
CopyDone ==
    /\ boot.pc = "put"
    /\ UNCHANGED aliasVars
    /\ Remaining(boot.items, lastRet.err) = <<>>
    /\ call[1].pc = "idle"
    /\ boot' = [boot EXCEPT !.pc = IF boot.prefixes = <<>> THEN "done" ELSE "copy",
                            !.items = <<>>,
                            !.identityStorage = IF boot.prefixes = <<>>
                                                  THEN IdentityStorage(boot.probe)
                                                  ELSE "nil"]
    /\ UNCHANGED <<liteVars, kubeVars>>

\* The process ends and is started again on the same engine file.
Restart ==
    /\ boot.pc \in {"done", "failed"}
    /\ UNCHANGED aliasVars
    /\ boot.runs < MaxRuns
    /\ \A c \in LocalCallers : call[c].pc = "idle"
    /\ boot' = [NoBoot EXCEPT !.runs = boot.runs, !.partial = boot.partial]
    /\ lastRet' = NoRet
    /\ UNCHANGED <<secretExists, secretData, resourceVersion, mu, call, acked>>
    /\ UNCHANGED liteVars

\* The secret holds some of the items to migrate and lacks others.
PartlyCopied ==
    /\ secretExists
    /\ Migrated \cap DOMAIN secretData # {}
    /\ Migrated \ DOMAIN secretData # {}

\* The process is killed during the copy and is started again: the Backend,
\* its mu and the call in progress are gone, the secret and the engine file
\* stay as they are.
Crash ==
    /\ boot.pc \in {"copy", "put"}
    /\ UNCHANGED aliasVars
    /\ boot.runs < MaxRuns
    /\ boot' = [NoBoot EXCEPT !.runs = boot.runs,
                              !.partial = boot.partial \/ PartlyCopied]
    /\ call' = [c \in Callers |-> IF c \in LocalCallers THEN NoCall ELSE call[c]]
    /\ mu' = [mu EXCEPT ![1] = 0]
    /\ lastRet' = NoRet
    /\ UNCHANGED <<secretExists, secretData, resourceVersion, acked>>
    /\ UNCHANGED liteVars

\* An engine file holding any items, no secret, NewProcessStorage not yet called.
BootInit ==
    /\ BufferSize = MaxBufferSize
    /\ Mirror = FALSE
    /\ EventsOff = TRUE
    /\ now = 0
    /\ \E S \in SUBSET BootKeys :
         kv \in [S -> [expires : {NoExpiry}, value : Values]]
    /\ events = {}
    /\ nextId = 1
    /\ rowid = notSet
    /\ pc = "idle"
    /\ ticks = 0
    /\ cancelled = FALSE
    /\ delivered = <<>>
    /\ lastBatch = <<>>
    /\ pushes = 0
    /\ watchStarts = 0
    /\ seeded = notSet
    /\ seedMax = 0
    /\ lost = {}
    /\ swept = NotSwept
    /\ polled = "none"
    /\ unpushed = {}
    /\ KubeStart
    /\ AliasStart

BootNext ==
    \/ NewProcessStorage
    \/ ExistsChecked
    \/ copyDataFromLocalIntoKube
    \/ CopyPut
    \/ CopyDone
    \/ updateSecretContentGet(1) /\ UNCHANGED <<bootVars, aliasVars>>
    \/ createSecret(1) /\ UNCHANGED <<bootVars, aliasVars>>
    \/ updateSecret(1) /\ UNCHANGED <<bootVars, aliasVars>>
    \/ \E k \in BootKeys : /\ boot.pc = "done"
                            /\ boot.identityStorage = "kubeSecret"
                            /\ Get(2, k)
                            /\ UNCHANGED <<bootVars, aliasVars>>
    \/ readSecretData(2) /\ UNCHANGED <<bootVars, aliasVars>>
    \/ Restart
    \/ Crash

BootSpec == BootInit /\ [][BootNext]_vars

(***************************************************************************)
(* Properties of the embedded engine.                                      *)
(***************************************************************************)
\* The loop leaves the job at position p in this step.
JobStep(p) == pc = p /\ pc' # p

\* A step of the reading transaction of pollEvents.
QueryStep == (pc = "query" \/ (pc = "poll" /\ rowid # notSet)) /\ pc' = "idle"

\* C1: the ids of the events pushed to the fan-out buffer, over all batches
\* in push order, are strictly increasing, so no id is pushed twice.
C1_DeliveredStrictlyIncreasing ==
    \A i, j \in 1..Len(delivered) : i < j => delivered[i] < delivered[j]

\* Two batches were pushed and the retention sweep removed an event meanwhile.
C1_Witness == Len(delivered) >= 2 /\ events # {} /\ Cardinality(events) < nextId - 1

\* C2: when the retention sweep removed no event that the cursor had not
\* passed, every appended id between the seeded cursor and a pushed id was
\* pushed before it.
C2_GapFree ==
    lost = {} =>
      \A p \in 1..Len(delivered) :
        \A i \in 1..(nextId - 1) :
          (seeded < i /\ i < delivered[p]) => \E q \in 1..(p - 1) : delivered[q] = i

\* A backlog of two events was delivered by two polls of batch limit 1.
C2_Witness ==
    /\ lost = {}
    /\ PollLimit = 1
    /\ seeded = -1
    /\ delivered = <<1, 2>>

\* C3 as claimed: the poll that seeded the cursor from a log with largest id
\* M >= 1 and pushed a batch pushed exactly <<M>> and returned M.
C3_SeedPollDeliversExactlyMax ==
    [][(pc = "query" /\ pc' = "idle" /\ seedMax >= 1 /\ polled' = "ok")
         => (lastBatch' = <<seedMax>> /\ rowid' = seedMax)]_vars

\* C3 amended: seeding sets the cursor to M-1; the same poll, when its read
\* succeeds, pushes M first, then only ids above M, and returns the last id
\* pushed; it pushes exactly <<M>> when no event was appended after seeding;
\* no id below M is ever pushed; a successful poll that finds no new event
\* pushes the empty batch and keeps the cursor.
C3_SeedBehaviour ==
    /\ [][(rowid = notSet /\ rowid' # notSet /\ events # {})
            => (rowid' = SetMax(EventIds) - 1 /\ seedMax' = SetMax(EventIds))]_vars
    /\ [][(pc = "query" /\ pc' = "idle" /\ seedMax >= 1 /\ polled' = "ok")
            => /\ Len(lastBatch') >= 1
               /\ lastBatch'[1] = seedMax
               /\ \A i \in 2..Len(lastBatch') : lastBatch'[i] > seedMax
               /\ rowid' = lastBatch'[Len(lastBatch')]
               /\ (nextId = seedMax + 1
                     => (lastBatch' = <<seedMax>> /\ rowid' = seedMax))]_vars
    /\ [](seedMax >= 1 => \A i \in 1..Len(delivered) : delivered[i] >= seedMax)
    /\ [][(QueryStep /\ polled' = "ok" /\ \A e \in events : e.id <= rowid)
            => (lastBatch' = <<>> /\ rowid' = rowid /\ delivered' = delivered)]_vars

\* The cursor was seeded from a log of two events, the same poll pushed
\* exactly the newest, and a later poll pushed the empty batch.
C3_Witness ==
    /\ seedMax = 2
    /\ delivered = <<2>>
    /\ rowid = 2
    /\ lastBatch = <<>>
    /\ polled = "ok"

\* C4: once set, the cursor never decreases.
C4_CursorNeverRegresses ==
    [][rowid # notSet => (rowid' # notSet /\ rowid' >= rowid)]_vars

\* The cursor advanced, and a later poll failed after the retention sweep
\* had emptied the log.
C4_Witness == rowid >= 1 /\ rowid > seeded /\ polled = "err" /\ events = {}

\* C5 as claimed: a step of removeOldEvents keeps every event above the
\* cursor of the poller.
C5_RetentionKeepsUnpolled ==
    [][(JobStep("retain") /\ rowid # notSet)
         => \A e \in events : e.id > rowid => e \in events']_vars

\* C6 as claimed: after a successful sweep of a non-mirror engine no item
\* with expires at or before the sweep's now is in the kv table.
C6_SweepRemovesAllExpired ==
    [][(JobStep("expire") /\ ~Mirror /\ swept'.res = "ok")
         => \A k \in DOMAIN kv :
              (kv[k].expires # NoExpiry /\ kv[k].expires <= now)
                => k \notin DOMAIN kv']_vars

\* C6 amended: the same, provided at most BufferSize items are expired.
C6_SweepRemovesExpiredUpToBufferSize ==
    [][(JobStep("expire") /\ ~Mirror /\ swept'.res = "ok")
         => LET E == {k \in DOMAIN kv :
                        kv[k].expires # NoExpiry /\ kv[k].expires <= now}
            IN  Cardinality(E) <= BufferSize => E \cap DOMAIN kv' = {}]_vars

\* One sweep removed two expired items and left none.
C6_Witness ==
    /\ ~Mirror
    /\ swept.res = "ok"
    /\ Cardinality(swept.keys) = 2
    /\ swept.left = {}

\* C7: in mirror mode a step of removeExpiredKeys leaves the kv table and
\* the event log unchanged.
C7_MirrorSweepIsNoOp ==
    [][(JobStep("expire") /\ Mirror) => (kv' = kv /\ events' = events)]_vars

\* A mirror engine ran the sweep with every item past its expiry.
C7_Witness ==
    /\ Mirror
    /\ swept.res = "mirror"
    /\ Cardinality(DOMAIN kv) = 2
    /\ \A k \in DOMAIN kv : kv[k].expires # NoExpiry /\ kv[k].expires <= now

(***************************************************************************)
(* Concurrent Put calls on different keys: a writer of this process and a  *)
(* writer of another process, each on a key of its own.                    *)
(***************************************************************************)
PutRaceWriters == {1, 3}
WriterKey(c) == IF c \in LocalCallers THEN 1 ELSE 2

PutRaceNext ==
    \E c \in PutRaceWriters :
      \/ \E v \in {"a", "b"} : Put(c, WriterKey(c), v) /\ UNCHANGED <<bootVars, aliasVars>>
      \/ updateSecretContentGet(c) /\ UNCHANGED <<bootVars, aliasVars>>
      \/ createSecret(c) /\ UNCHANGED <<bootVars, aliasVars>>
      \/ updateSecret(c) /\ UNCHANGED <<bootVars, aliasVars>>

PutRaceSpec == KubeInit /\ [][PutRaceNext]_vars


(***************************************************************************)
(* Properties of the Secret backend.                                       *)
(***************************************************************************)
\* C8 as claimed: once the concurrent Put calls of writers on different keys
\* have all returned, the item of every Put that returned success is in the
\* mapping with its value.
C8_NoLostUpdate ==
    (\A c \in Callers : call[c].pc = "idle")
      => \A k \in DOMAIN acked :
           secretExists /\ k \in DOMAIN secretData /\ secretData[k] = acked[k]

\* C9: a mutating call fetches and applies at most 3 times, fetches anew
\* before every apply, returns success in the step in which an apply is
\* accepted, and returns the apply error after exactly 3 rejected applies.
C9_AtMostThreeAttempts ==
    /\ [](\A c \in Callers :
            /\ call[c].i < 3
            /\ call[c].fetches <= 3
            /\ call[c].pc = "update" => call[c].fetches = call[c].i + 1)
    /\ []((lastRet.op \in Mutators /\ lastRet.res = "ok")
            => (lastRet.rejected < 3 /\ lastRet.fetches = lastRet.rejected + 1))
    /\ []((lastRet.op \in Mutators /\ lastRet.err = ErrUpdateSecret)
            => (lastRet.res = "error" /\ lastRet.rejected = 3 /\ lastRet.fetches = 3))
    /\ [][\A c \in Callers :
            (call[c].pc = "update" /\ call'[c] # call[c]
               /\ resourceVersion' # resourceVersion)
              => (call'[c].pc = "idle" /\ lastRet'.res = "ok")]_vars

\* A call returned the apply error after its third rejected apply, with
\* the secret changed by others in between.
C9_Witness ==
    /\ lastRet.op = "Put"
    /\ lastRet.err = ErrUpdateSecret
    /\ lastRet.rejected = 3
    /\ resourceVersion >= 2

\* C10 as claimed: Get returns a not-found error exactly when the secret
\* was read and does not hold the key.
C10_GetAbsentIsNotFound ==
    lastRet.op = "Get" => (IsNotFound(lastRet.err) <=> lastRet.found = "absent")

(***************************************************************************)
(* Properties of NewProcessStorage.                                        *)
(***************************************************************************)
\* C11 as claimed: when the first NewProcessStorage, started in a cluster
\* with no secret, has returned, the mapping of the secret holds exactly the
\* items of the engine under idsPrefix and statesPrefix, with their values,
\* and Get finds each of them.
C11_MigrationComplete ==
    (boot.pc = "done" /\ boot.identityStorage = "kubeSecret" /\ boot.runs = 1
       /\ ~boot.existed)
      => /\ DOMAIN secretData = Migrated
         /\ \A k \in Migrated :
              secretData[k] = kv[k].value /\ KeyFound(secretData, k)

\* C12 as claimed: NewProcessStorage copies items of the engine into the
\* secret only in a run whose Exists call found no secret: while a run is in
\* its copy, the secret did not exist when that run fetched it.
C12_CopyOnlyWhenAbsent ==
    boot.pc \in {"copy", "put"} => ~boot.existed

\* C13: in one process at most one call of Exists, Get, Create, Put or
\* PutItems is between its entry and its return, it is the holder of mu, and
\* while it is there no other call of the process takes a step.
C13_LocalCallsExclusive ==
    /\ [](\A c, d \in LocalCallers :
            (call[c].pc # "idle" /\ call[d].pc # "idle") => c = d)
    /\ [](\A c \in LocalCallers : call[c].pc # "idle" => mu[Proc(c)] = c)
    /\ [][\A c, d \in LocalCallers :
            (call[c].pc # "idle" /\ d # c) => call'[d] = call[d]]_vars

\* A local Put is in its second round of the loop while a call of the other
\* process is in progress too.
C13_Witness ==
    /\ call[1].op = "Put"
    /\ call[1].pc = "update"
    /\ call[1].i = 1
    /\ call[2].pc = "idle"
    /\ call[3].pc = "update"

\* C14 as claimed: the secret is never deleted, and createSecret is applied
\* only when the secret does not exist, so the mapping of an existing secret
\* is never replaced by the empty one.
C14_CreatedOnce ==
    [][/\ secretExists => secretExists'
       /\ \A c \in Callers :
            (call[c].pc = "create" /\ call'[c].pc = "update") => ~secretExists]_vars

(***************************************************************************)
(* Properties of runPeriodicOperations.                                    *)
(***************************************************************************)
\* C15: the loop is at one position at a time; a tick runs removeExpiredKeys,
\* then removeOldEvents, then pollEvents, each once, and goes back to the
\* select; with EventsOff it runs removeExpiredKeys only.
C15_JobsInOrder ==
    /\ [](EventsOff => pc \notin {"retain", "poll", "query"})
    /\ [][pc' # pc =>
            \/ pc = "idle" /\ pc' \in {"expire", "closed"}
            \/ pc = "expire" /\ pc' = (IF EventsOff THEN "idle" ELSE "retain")
            \/ pc = "retain" /\ pc' = "poll"
            \/ pc = "poll" /\ pc' \in {"query", "idle"}
            \/ pc = "query" /\ pc' = "idle"]_vars

\* The poll of a tick is reading events while the next tick is already
\* buffered.
C15_Witness ==
    /\ ~EventsOff
    /\ pc = "query"
    /\ ticks = 1
    /\ events # {}

\* C16 as claimed: signalWatchStart is called at most once, only in the step
\* in which the seeding transaction succeeds and sets the cursor, and every
\* batch given to PushBatch comes after it.
C16_WatchSignal ==
    /\ [](watchStarts <= 1)
    /\ [](watchStarts = 1 => rowid # notSet)
    /\ [](pushes = 1 => watchStarts = 1)
    /\ [][watchStarts' # watchStarts
            => (rowid = notSet /\ rowid' = SeedRowid /\ pc' = "query"
                  /\ pushes = 0)]_vars

\* C17: t.C never holds more than one tick: a tick sent while one is
\* buffered is dropped, and one receive empties t.C, so after a body that
\* overran any number of periods the loop finds one tick, not one per period.
C17_TicksMerged ==
    /\ [](ticks \in {0, 1})
    /\ [][(pc = "idle" /\ pc' = "expire") => (ticks = 1 /\ ticks' = 0)]_vars
    /\ [][(ticks = 1 /\ pc' = pc) => ticks' = 1]_vars

\* The ticker has fired during the body in progress, whose poll is reading
\* events: a tick is buffered while the loop cannot receive it.
C17_Witness ==
    /\ pc = "query"
    /\ ticks = 1
    /\ rowid # notSet
    /\ events # {}
    /\ ~cancelled

\* C18: once l.ctx is cancelled the loop reaches closeDatabase and returns;
\* it does so from its select only, once, and stays returned, so no job runs
\* after it.
C18_CancelClosesOnce ==
    /\ cancelled ~> pc = "closed"
    /\ [][pc = "closed" => pc' = "closed"]_vars
    /\ [][(pc # "closed" /\ pc' = "closed") => (pc = "idle" /\ cancelled)]_vars

\* The loop has returned after having polled, with a tick left in t.C.
C18_Witness ==
    /\ pc = "closed"
    /\ rowid # notSet
    /\ ticks = 1

\* C19: the loop ends only when l.ctx is done; whatever removeExpiredKeys
\* returns the tick goes on with removeOldEvents (unless EventsOff), whatever
\* removeOldEvents returns it goes on with pollEvents, and after an error of
\* pollEvents the loop is back at its select.
C19_ErrorsDoNotStopLoop ==
    /\ [](pc = "closed" => cancelled)
    /\ [][(pc = "expire" /\ swept'.res = "err")
            => pc' = (IF EventsOff THEN "idle" ELSE "retain")]_vars
    /\ [][(pc = "retain" /\ pc' # pc) => pc' = "poll"]_vars
    /\ [][(pc = "retain" /\ pc' # pc /\ OldEvents(now) # {} /\ events' = events)
            => pc' = "poll"]_vars
    /\ [][(polled # "err" /\ polled' = "err") => pc' = "idle"]_vars
    /\ []((pc = "idle" /\ ticks = 1) => ENABLED LoopTick)

\* removeExpiredKeys has failed in a tick after the first poll, and the loop
\* is at removeOldEvents.
C19_Witness ==
    /\ swept.res = "err"
    /\ pc = "retain"
    /\ rowid # notSet
    /\ ~cancelled

\* Ids of the events that have left the table: only removeOldEvents deletes
\* rows of events.
Removed == (1..(nextId - 1)) \ EventIds

\* removeOldEvents returns in this step.
RetainStep == pc = "retain" /\ pc' = "poll"

\* C20 as claimed: a removeOldEvents that succeeds at time t removes exactly
\* the events created before t - DefaultEventsTTL (a failed one removes
\* nothing); it leaves kv unchanged, and no poll pushes a removed event.
C20_RetentionRemovesOlder ==
    /\ [][RetainStep =>
            /\ \/ events' = events
               \/ events' = {e \in events : ~(e.created < now - DefaultEventsTTL)}
            /\ kv' = kv]_vars
    /\ [][\A i \in Removed : \A j \in 1..Len(delivered') :
            j > Len(delivered) => delivered'[j] # i]_vars

\* C20, amended: the events removed are those created at or before
\* t - DefaultEventsTTL.
C20_RetentionRemovesOldOrEqual ==
    /\ [][RetainStep =>
            /\ \/ events' = events
               \/ events' = {e \in events : ~(e.created <= now - DefaultEventsTTL)}
            /\ kv' = kv]_vars
    /\ [][\A i \in Removed : \A j \in 1..Len(delivered') :
            j > Len(delivered) => delivered'[j] # i]_vars

\* removeOldEvents has just removed event 1 and kept the younger event 2,
\* with items in kv.
C20_Witness ==
    /\ pc = "poll"
    /\ nextId = 3
    /\ EventIds = {2}
    /\ \A e \in events : e.created > now - DefaultEventsTTL
    /\ DOMAIN kv # {}

(***************************************************************************)
(* Properties of Create.                                                   *)
(***************************************************************************)
\* C21 as claimed: a Create whose apply is accepted leaves the value of
\* every key of its item that the mapping already holds as it was: Create
\* writes only keys that are not in the mapping.
C21_CreateDoesNotOverwrite ==
    [][\A c \in Callers :
         (call[c].op = "Create" /\ call[c].pc = "update" /\ call'[c].pc = "idle"
            /\ lastRet'.res = "ok")
           => \A k \in DOMAIN call[c].items :
                (secretExists /\ k \in DOMAIN secretData)
                  => secretData'[k] = secretData[k]]_vars

(***************************************************************************)
(* Properties of the selection of the state backend.                       *)
(***************************************************************************)
\* return &ProcessStorage{Backend: litebk, stateStorage: identityStorage}, nil
\* and the error returns, which return no ProcessStorage.
ProcessStorage ==
    IF boot.pc = "done"
      THEN [Backend |-> "litebk", stateStorage |-> boot.identityStorage]
      ELSE [Backend |-> "nil", stateStorage |-> "nil"]

\* NewProcessStorage has returned.
Returned == boot.pc \in {"done", "failed"}

\* C22 as claimed: with an empty path NewProcessStorage fails with a
\* bad-parameter error and constructs nothing; with any other path it has
\* constructed the engine and returns it as the engine handle, with the
\* secret backend as state backend exactly when InKubeCluster holds and the
\* engine otherwise.
C22_SelectionAlways ==
    Returned =>
      IF boot.path = ""
        THEN boot.pc = "failed" /\ boot.err = "BadParameter" /\ boot.made = {}
        ELSE /\ "litebk" \in boot.made
             /\ ProcessStorage.Backend = "litebk"
             /\ ProcessStorage.stateStorage
                  = (IF boot.probe THEN "kubeSecret" ELSE "litebk")

\* C22, amended: the same for every NewProcessStorage that returns no error;
\* with a path, it returns an error and no storage exactly when
\* lite.NewWithConfig fails, or when in a cluster kubernetes.New fails (the
\* engine is then constructed and not returned).
C22_SelectionOnSuccess ==
    Returned =>
      IF boot.path = ""
        THEN boot.pc = "failed" /\ boot.err = "BadParameter" /\ boot.made = {}
        ELSE /\ boot.pc = "done" =>
                  /\ boot.err = "nil"
                  /\ "litebk" \in boot.made
                  /\ ProcessStorage.Backend = "litebk"
                  /\ ProcessStorage.stateStorage
                       = (IF boot.probe THEN "kubeSecret" ELSE "litebk")
                  /\ ("kubeSecret" \in boot.made <=> boot.probe)
             /\ boot.pc = "failed" =>
                  /\ ProcessStorage = [Backend |-> "nil", stateStorage |-> "nil"]
                  /\ \/ boot.err = "lite" /\ boot.made = {}
                     \/ boot.err = "kube" /\ boot.probe /\ boot.made = {"litebk"}

\* A run outside a cluster returned the engine as state backend, after a
\* run in the cluster had copied an item into the secret.
C22_Witness ==
    /\ boot.pc = "done"
    /\ boot.runs = 2
    /\ ~boot.probe
    /\ ProcessStorage = [Backend |-> "litebk", stateStorage |-> "litebk"]
    /\ secretExists
    /\ DOMAIN secretData # {}

(***************************************************************************)
(* Properties of the copy into the secret.                                 *)
(***************************************************************************)
\* The run found no secret and ran compatibilityLayer to its end.
CopyRan == boot.pc = "done" /\ boot.ranged # {}

\* C23: once in the cluster branch NewProcessStorage does not fail: whatever
\* GetRange and Put return, GetRange is called for both prefixes, Put is
\* called for every item of every range that was read (after a Put that
\* returned an error the Put of the next item is started), and the run
\* returns the secret backend as state backend with no error.
C23_CopyIsBestEffort ==
    /\ [][boot.pc \in {"exists", "copy", "put"}
            => boot'.pc \in {"exists", "copy", "put", "done", "start"}]_vars
    /\ [][(boot.pc \in {"exists", "copy", "put"} /\ boot'.pc = "start")
            => boot'.runs < MaxRuns + 1 /\ call'[1] = NoCall]_vars
    /\ [](CopyRan =>
            /\ boot.ranged = {idsPrefix, statesPrefix}
            /\ boot.tried = {k \in DOMAIN kv : Prefix(k) \in boot.read}
            /\ boot.err = "nil"
            /\ ProcessStorage = [Backend |-> "litebk", stateStorage |-> "kubeSecret"])
    /\ []((boot.pc = "put" /\ lastRet.op = "Put" /\ lastRet.res = "error"
             /\ boot.items # <<>>)
            => ENABLED CopyPut)

\* The copy went to its end although the range of statesPrefix could not be
\* read and the Put of the first item of idsPrefix failed: the second item
\* of idsPrefix is in the secret, the first is not.
C23_Witness ==
    /\ CopyRan
    /\ boot.runs = 1
    /\ boot.read = {idsPrefix}
    /\ boot.tried = {1, 4}
    /\ secretExists
    /\ DOMAIN secretData = {4}
    /\ 2 \in DOMAIN kv

\* C30 as claimed: when a run was killed with some but not all items in the
\* secret, then after a later run in the cluster has returned the secret
\* holds every item of the engine under the two prefixes.
C30_NoPartialMigration ==
    (boot.pc = "done" /\ boot.identityStorage = "kubeSecret" /\ boot.partial)
      => \A k \in Migrated :
           secretExists /\ k \in DOMAIN secretData /\ secretData[k] = kv[k].value

(***************************************************************************)
(* Properties of pollEvents and of the expiration sweep.                   *)
(***************************************************************************)
\* The read of pollEvents returned with no error in this step.
ReadOk == QueryStep /\ polled' = "ok"

\* The read of pollEvents failed in this step.
ReadFailed == QueryStep /\ polled' = "err"

\* C24: the batch pushed by a poll holds at most max(1, BufferSize div 2)
\* events: as many of the events above the cursor as the limit allows, those
\* with the smallest ids, in ascending order of id.
C24_BatchIsLimitedPrefix ==
    [][ReadOk =>
         LET pending == {i \in EventIds : i > rowid}
             half == BufferSize \div 2
             lim == IF half > 1 THEN half ELSE 1
             batch == lastBatch'
         IN  /\ Len(batch) <= lim
             /\ Len(batch) = (IF Cardinality(pending) < lim
                                THEN Cardinality(pending) ELSE lim)
             /\ Range(batch) \subseteq pending
             /\ \A i \in 1..(Len(batch) - 1) : batch[i] < batch[i + 1]
             /\ \A p \in pending \ Range(batch) : \A b \in Range(batch) : b < p
             /\ (BufferSize \in {0, 1} => lim = 1)]_vars

\* With a limit of 1 a poll pushed event 1 alone and moved the cursor to
\* it, and event 2 is in the log above the cursor.
C24_Witness ==
    /\ BufferSize = 1
    /\ polled = "ok"
    /\ lastBatch = <<1>>
    /\ rowid = 1
    /\ EventIds = {1, 2}

\* C25: a poll whose read succeeds gives all the rows it read to PushBatch
\* as one batch, a poll whose read fails pushes nothing, and nothing is pushed
\* in any other step.
C25_WholeBatchOrNothing ==
    /\ [][ReadOk =>
            LET rows == OrderBy({i \in EventIds : i > rowid}) IN
            /\ pushes' = 1
            /\ Len(lastBatch') = (IF Len(rows) < PollLimit THEN Len(rows)
                                  ELSE PollLimit)
            /\ \A i \in 1..Len(lastBatch') : lastBatch'[i] = rows[i]
            /\ delivered' = delivered \o lastBatch']_vars
    /\ [][ReadFailed =>
            (delivered' = delivered /\ lastBatch' = lastBatch /\ pushes' = pushes)]_vars
    /\ [][(delivered' # delivered \/ lastBatch' # lastBatch \/ pushes' # pushes)
            => ReadOk]_vars

\* A poll pushed a batch of two events at once.
C25_Witness ==
    /\ polled = "ok"
    /\ lastBatch = <<1, 2>>
    /\ delivered = <<1, 2>>
    /\ pushes = 1

\* C27 as claimed: a read that pushed a non-empty batch moves the cursor to
\* the last id of the batch, an empty batch and a failed read leave the
\* cursor as it was, and every event a failed read left unpushed is still in
\* the log above the cursor until a later poll pushes it, once.
C27_FailedReadLosesNothing ==
    /\ [][ReadOk => rowid' = (IF lastBatch' # <<>>
                                THEN lastBatch'[Len(lastBatch')] ELSE rowid)]_vars
    /\ [][ReadFailed => rowid' = rowid]_vars
    /\ [](\A i \in unpushed : i \in EventIds /\ i > rowid)
    /\ [](\A i, j \in 1..Len(delivered) : i # j => delivered[i] # delivered[j])

\* C28: a sweep deletes at most BufferSize keys, all of them expired and all
\* of them below every expired key it leaves; when more than BufferSize keys
\* are expired it deletes exactly BufferSize of them and leaves the others
\* as they were.
C28_SweepTakesSmallestExpired ==
    [][(JobStep("expire") /\ ~Mirror /\ swept'.res = "ok") =>
         LET E == {k \in DOMAIN kv : kv[k].expires # NoExpiry /\ kv[k].expires <= now}
             D == DOMAIN kv \ DOMAIN kv'
         IN  /\ Cardinality(D) <= BufferSize
             /\ D \subseteq E
             /\ \A d \in D : \A k \in E \ D : d < k
             /\ Cardinality(E) > BufferSize =>
                  /\ Cardinality(D) = BufferSize
                  /\ \A k \in E \ D : k \in DOMAIN kv' /\ kv'[k] = kv[k]
             /\ Cardinality(E) <= BufferSize => D = E]_vars

\* With BufferSize 1 and two expired keys, a sweep deleted key 1 and left
\* key 2, still expired, in the table.
C28_Witness ==
    /\ BufferSize = 1
    /\ ~Mirror
    /\ swept.res = "ok"
    /\ swept.keys = {1}
    /\ swept.left = {2}
    /\ DOMAIN kv = {2}

(***************************************************************************)
(* Properties of a failed mutating call.                                   *)
(***************************************************************************)
\* C29 as claimed: a Put, Create or PutItems that returns an error has left
\* the mapping of the secret as it was: the step in which it returns changes
\* nothing, a step in which its items are written is the step in which it
\* returns success, and it has not replaced a mapping that held keys.
C29_FailedCallChangesNothing ==
    /\ [][\A c \in Callers :
            (call[c].op \in Mutators /\ call'[c].pc = "idle" /\ lastRet'.res = "error")
              => (secretData' = secretData /\ secretExists' = secretExists)]_vars
    /\ [][\A c \in Callers :
            (call[c].pc = "update" /\ call'[c] # call[c] /\ secretData' # secretData)
              => lastRet'.res = "ok"]_vars
    /\ []((lastRet.op \in Mutators /\ lastRet.res = "error") => lastRet.wiped = {})

(***************************************************************************)
(* tsh aliases: replaceSpecialArgs.                                        *)
(*                                                                         *)
(* A string is the sequence of its characters.  int has 64 bits.           *)
(***************************************************************************)
MaxArgs == 2

DigitChars == <<"0", "1", "2", "3", "4", "5", "6", "7", "8", "9">>
Digits == Range(DigitChars)
DigitVal(c) == (CHOOSE i \in 1..10 : DigitChars[i] = c) - 1

\* Runtime arguments.
Foo == <<"f", "o", "o">>
Bar == <<"b", "a", "r">>
RuntimeWords == {Foo, Bar}

Nines(n) == [i \in 1..n |-> "9"]

\* 9223372036854775807, the largest int.
MaxIntDigits == <<"9", "2", "2", "3", "3", "7", "2", "0", "3", "6", "8", "5", "4",
                  "7", "7", "5", "8", "0", "7">>

\* Defined arguments of an alias: "$@", "$0", "$1", "$01", "$2",
\* "$9223372036854775807", "$9223372036854775808", "$99999999999999999999",
\* "$-100", "$100 200 300", "$" and "foo".
AllArgs == <<"$", "@">>
DefinedParams ==
    { AllArgs,
      <<"$", "0">>, <<"$", "1">>, <<"$", "0", "1">>, <<"$", "2">>,
      <<"$">> \o MaxIntDigits,
      <<"$">> \o SubSeq(MaxIntDigits, 1, 18) \o <<"8">>,
      <<"$">> \o Nines(20),
      <<"$", "-", "1", "0", "0">>,
      <<"$", "1", "0", "0", " ", "2", "0", "0", " ", "3", "0", "0">>,
      <<"$">>,
      Foo }

\* Sequences of at most n elements of S.
SeqsUpTo(S, n) == UNION {[1..m -> S] : m \in 0..n}

\* regexp.MatchString("^[$]\\d+$", param)
MatchRef(param) ==
    /\ Len(param) >= 2
    /\ param[1] = "$"
    /\ \A i \in 2..Len(param) : param[i] \in Digits

RECURSIVE StripZeros(_)
\* The digits without leading zeros (one digit is kept).
StripZeros(d) == IF Len(d) > 1 /\ d[1] = "0" THEN StripZeros(Tail(d)) ELSE d

RECURSIVE DigitsLeq(_, _)
\* a <= b for digit strings of equal length.
DigitsLeq(a, b) ==
    IF a = <<>> THEN TRUE
    ELSE IF DigitVal(a[1]) # DigitVal(b[1]) THEN DigitVal(a[1]) < DigitVal(b[1])
    ELSE DigitsLeq(Tail(a), Tail(b))

\* The number is at most the largest int.
FitsInt(d) ==
    LET z == StripZeros(d)
    IN  Len(z) < Len(MaxIntDigits)
          \/ (Len(z) = Len(MaxIntDigits) /\ DigitsLeq(z, MaxIntDigits))

RECURSIVE Decimal(_)
Decimal(d) == IF d = <<>> THEN 0
              ELSE Decimal(SubSeq(d, 1, Len(d) - 1)) * 10 + DigitVal(d[Len(d)])

\* Numbers of more than 9 digits are all represented by 10^9: argNum is only
\* compared with 0 and with len(runtimeArgs).
Large == 1000000000
IntValue(d) == LET z == StripZeros(d) IN IF Len(z) > 9 THEN Large ELSE Decimal(z)

\* Mutant of Atoi: a number above the largest int is not an error.
Atoi_NoRange(d) == [val |-> IntValue(d), err |-> "nil"]

\* strconv.Atoi of a string of decimal digits: a range error above the
\* largest int.
Atoi(d) == IF FitsInt(d) THEN [val |-> IntValue(d), err |-> "nil"]
           ELSE [val |-> Large, err |-> "ErrRange"]

RECURSIVE replaceLoop(_, _, _)
\* for _, param := range definedArgs { ... }; return out, nil
replaceLoop(runtimeArgs, definedArgs, out) ==
    IF definedArgs = <<>> THEN [called |-> TRUE, out |-> out, err |-> "nil"]
    ELSE LET param == Head(definedArgs) IN
         IF param = AllArgs
           THEN replaceLoop(runtimeArgs, Tail(definedArgs), out \o runtimeArgs)
         ELSE IF MatchRef(param)
           THEN LET argNum == Atoi(Tail(param)) IN
                IF argNum.err # "nil"
                  THEN [called |-> TRUE, out |-> <<>>, err |-> "bad argument reference"]
                ELSE IF argNum.val < 0
                  THEN [called |-> TRUE, out |-> <<>>, err |-> "BadParameter"]
                ELSE IF argNum.val >= Len(runtimeArgs)
                  THEN replaceLoop(runtimeArgs, Tail(definedArgs), Append(out, <<>>))
                ELSE replaceLoop(runtimeArgs, Tail(definedArgs),
                                 Append(out, runtimeArgs[argNum.val + 1]))
         ELSE replaceLoop(runtimeArgs, Tail(definedArgs), Append(out, param))

\* var out []string
replaceSpecialArgs(runtimeArgs, definedArgs) == replaceLoop(runtimeArgs, definedArgs, <<>>)

\* got, err := replaceSpecialArgs(tt.argsGiven, tt.aliasParams)
replaceSpecialArgsCall ==
    /\ ~got.called
    /\ got' = replaceSpecialArgs(argsGiven, aliasParams)
    /\ UNCHANGED <<argsGiven, aliasParams, tsh>>
    /\ UNCHANGED <<liteVars, kubeVars, bootVars>>

AliasInit ==
    /\ BufferSize = MaxBufferSize
    /\ Mirror = FALSE
    /\ EventsOff = TRUE
    /\ now = 0
    /\ kv = <<>>
    /\ events = {}
    /\ nextId = 1
    /\ rowid = notSet
    /\ pc = "idle"
    /\ ticks = 0
    /\ cancelled = FALSE
    /\ delivered = <<>>
    /\ lastBatch = <<>>
    /\ pushes = 0
    /\ watchStarts = 0
    /\ seeded = notSet
    /\ seedMax = 0
    /\ lost = {}
    /\ swept = NotSwept
    /\ polled = "none"
    /\ unpushed = {}
    /\ KubeStart
    /\ argsGiven \in SeqsUpTo(RuntimeWords, MaxArgs)
    /\ aliasParams \in SeqsUpTo(DefinedParams, MaxArgs)
    /\ got = NotCalled
    /\ tsh = NoTsh

AliasNext == replaceSpecialArgsCall

AliasSpec == AliasInit /\ [][AliasNext]_vars

\* What one defined argument stands for, as the claim has it: all runtime
\* arguments for "$@"; for "$n" runtime argument n, counted from 0, or the
\* empty string when there is none; the argument itself otherwise.
Expansion(param) ==
    IF param = AllArgs THEN argsGiven
    ELSE IF MatchRef(param)
      THEN LET z == StripZeros(Tail(param)) IN
           IF Len(z) <= 9 /\ Decimal(z) < Len(argsGiven)
             THEN <<argsGiven[Decimal(z) + 1]>>
             ELSE <<(<<>>)>>
    ELSE <<param>>

\* out is the expansions of the defined arguments, one after the other.
IsExpansion(out) ==
    LET n == Len(aliasParams)
        end[i \in 0..n] == IF i = 0 THEN 0
                           ELSE end[i - 1] + Len(Expansion(aliasParams[i]))
    IN  /\ Len(out) = end[n]
        /\ \A i \in 1..n :
             SubSeq(out, end[i - 1] + 1, end[i]) = Expansion(aliasParams[i])

\* C26 as claimed: replaceSpecialArgs returns no error and the expansions of
\* the defined arguments in order, for every "$n" of one or more digits.
C26_ReplaceAlways ==
    got.called => (got.err = "nil" /\ IsExpansion(got.out))

\* C26, amended: it does so when the number of every "$n" among the defined
\* arguments is at most the largest int; otherwise it returns an error and
\* no arguments.
C26_ReplaceWhenIntFits ==
    got.called =>
      IF \A i \in 1..Len(aliasParams) :
           MatchRef(aliasParams[i]) => FitsInt(Tail(aliasParams[i]))
        THEN got.err = "nil" /\ IsExpansion(got.out)
        ELSE got.err # "nil" /\ got.out = <<>>

\* With the one runtime argument foo, the alias arguments "$@" and "$1" gave
\* foo and the empty string.
C26_Witness ==
    /\ got.called
    /\ argsGiven = <<Foo>>
    /\ aliasParams = <<AllArgs, <<"$", "1">>>>
    /\ got.err = "nil"
    /\ got.out = <<Foo, <<>>>>

\* ---- tsh aliases: nested alias invocations ----

MaxChain == 4

\* Words of a command line: the commands a, b and "a,b", and the option -d.
NameA == <<"a">>
NameB == <<"b">>
NameAB == <<"a", ",", "b">>
NoName == <<>>
Opt == <<"-", "d">>

\* Names an alias is defined under in the configuration.
AliasNames == {NameA, NameAB, NoName}

\* Parsed alias definitions: "$TSH a", "$TSH b", "$TSH a,b", "$TSH -d",
\* "$TSH $@", "echo", and the empty definition, which does not parse.
TshVar == "$TSH"
AliasDefs ==
    {[executable |-> TshVar, args |-> <<w>>] : w \in {NameA, NameB, NameAB, Opt, AllArgs}}
      \cup {[executable |-> "echo", args |-> <<>>],
            [executable |-> "", args |-> <<>>]}

RECURSIVE SplitFrom(_, _)
SplitFrom(s, piece) ==
    IF s = <<>> THEN <<piece>>
    ELSE IF Head(s) = "," THEN <<piece>> \o SplitFrom(Tail(s), <<>>)
    ELSE SplitFrom(Tail(s), Append(piece, Head(s)))

\* strings.Split(s, ",")
Split(s) == SplitFrom(s, <<>>)

RECURSIVE Join(_)
\* strings.Join(list, ",")
Join(list) ==
    IF list = <<>> THEN <<>>
    ELSE IF Len(list) = 1 THEN list[1]
    ELSE list[1] \o <<",">> \o Join(Tail(list))

\* strings.TrimSpace(val) != ""
NotBlank(val) == \E i \in 1..Len(val) : val[i] # " "

\* getSeenAliases: the pieces of TSH_ALIAS that are not blank.
getSeenAliases(env) == SelectSeq(Split(env), NotBlank)

\* findCommand: the first argument that is not empty and is no option, with
\* its index counted from 0; "" and -1 when there is none.
findCommand(args) ==
    LET hits == {i \in 1..Len(args) : args[i] # <<>> /\ args[i][1] # "-"} IN
    IF hits = {} THEN [aliasCmd |-> NoName, aliasIx |-> -1]
    ELSE [aliasCmd |-> args[SetMin(hits)], aliasIx |-> SetMin(hits) - 1]

\* tryRunAlias returns without having started a command.
tryRunAliasReturn(ran, err) ==
    tsh' = [tsh EXCEPT !.pc = "done", !.ran = ran, !.err = err]

\* runAliasCommand: the executable is not found, or it is run with TSH_ALIAS
\* set to the joined list; a child that is tsh itself calls tryRunAlias with
\* the arguments and the environment it was given.
runAliasCommand(aliasesSeen, executable, arguments) ==
    \/ tryRunAliasReturn(TRUE, "failed to find a executable")
    \/ tsh' = [tsh EXCEPT !.pc = IF executable = TshVar THEN "main" ELSE "done",
                          !.args = arguments,
                          !.env = Join(aliasesSeen),
                          !.chain = Append(tsh.chain, aliasesSeen[Len(aliasesSeen)]),
                          !.ran = TRUE,
                          !.err = "nil"]

tryRunAlias ==
    /\ tsh.pc = "main"
    /\ Len(tsh.chain) < MaxChain
    /\ LET found == findCommand(tsh.args)
           aliasCmd == found.aliasCmd
           aliasesSeen == getSeenAliases(tsh.env)
       IN  IF aliasCmd \in Range(aliasesSeen) \/ aliasCmd \notin DOMAIN tsh.aliases
             THEN tryRunAliasReturn(FALSE, "nil")
           ELSE IF tsh.aliases[aliasCmd].executable = ""
             THEN tryRunAliasReturn(TRUE, "empty alias definition")
           ELSE LET runtimeArgs == SubSeq(tsh.args, found.aliasIx + 2, Len(tsh.args))
                    aliasArgs == replaceSpecialArgs(runtimeArgs, tsh.aliases[aliasCmd].args)
                IN  IF aliasArgs.err # "nil"
                      THEN tryRunAliasReturn(TRUE, aliasArgs.err)
                      ELSE runAliasCommand(Append(aliasesSeen, aliasCmd),
                                           tsh.aliases[aliasCmd].executable,
                                           aliasArgs.out)
    /\ UNCHANGED <<argsGiven, aliasParams, got>>
    /\ UNCHANGED <<liteVars, kubeVars, bootVars>>

\* The user starts tsh with TSH_ALIAS unset.
ChainInit ==
    /\ BufferSize = MaxBufferSize
    /\ Mirror = FALSE
    /\ EventsOff = TRUE
    /\ now = 0
    /\ kv = <<>>
    /\ events = {}
    /\ nextId = 1
    /\ rowid = notSet
    /\ pc = "idle"
    /\ ticks = 0
    /\ cancelled = FALSE
    /\ delivered = <<>>
    /\ lastBatch = <<>>
    /\ pushes = 0
    /\ watchStarts = 0
    /\ seeded = notSet
    /\ seedMax = 0
    /\ lost = {}
    /\ swept = NotSwept
    /\ polled = "none"
    /\ unpushed = {}
    /\ KubeStart
    /\ boot = NoBoot
    /\ argsGiven = <<>>
    /\ aliasParams = <<>>
    /\ got = NotCalled
    /\ \E names \in SUBSET AliasNames :
         \E defs \in [names -> AliasDefs], args \in SeqsUpTo({NameA, NameAB, Opt}, MaxArgs) :
           tsh = [NoTsh EXCEPT !.pc = "main", !.aliases = defs, !.args = args]

ChainNext == tryRunAlias

ChainSpec == ChainInit /\ [][ChainNext]_vars

\* C32: alias expansion cannot loop.  An alias is run only when its name is
\* not in the seen list of TSH_ALIAS, the child then finds in its TSH_ALIAS
\* the seen list extended with that name, no alias runs twice in a chain of
\* nested invocations, and the chain is no longer than the number of aliases
\* defined.
C32_AliasRunsOnce ==
    /\ [][tsh'.chain # tsh.chain =>
            LET aliasCmd == findCommand(tsh.args).aliasCmd IN
            /\ aliasCmd \notin Range(getSeenAliases(tsh.env))
            /\ tsh'.chain = Append(tsh.chain, aliasCmd)
            /\ getSeenAliases(tsh'.env) = Append(getSeenAliases(tsh.env), aliasCmd)]_vars
    /\ [](\A i, j \in 1..Len(tsh.chain) : i # j => tsh.chain[i] # tsh.chain[j])
    /\ [](Len(tsh.chain) <= Cardinality(DOMAIN tsh.aliases))

\* C32 for alias names that are not empty and hold no comma: the same.
C32_PlainNamesRunOnce ==
    /\ [][(tsh'.chain # tsh.chain /\ NameAB \notin DOMAIN tsh.aliases
                                   /\ NoName \notin DOMAIN tsh.aliases) =>
            LET aliasCmd == findCommand(tsh.args).aliasCmd IN
            /\ aliasCmd \notin Range(getSeenAliases(tsh.env))
            /\ tsh'.chain = Append(tsh.chain, aliasCmd)
            /\ getSeenAliases(tsh'.env) = Append(getSeenAliases(tsh.env), aliasCmd)]_vars
    /\ []((NameAB \notin DOMAIN tsh.aliases /\ NoName \notin DOMAIN tsh.aliases) =>
            /\ \A i, j \in 1..Len(tsh.chain) : i # j => tsh.chain[i] # tsh.chain[j]
            /\ Len(tsh.chain) <= Cardinality(DOMAIN tsh.aliases))

\* C31: PutItems writes its items with one apply.  A step of a PutItems call
\* either leaves every given key in the mapping with its given value, and is
\* then the step in which the call returns success, or gives none of the
\* given keys a value it did not have and does not return success: no state
\* of the mapping holds only some of the items of one call.
C31_PutItemsOneApply ==
    [][\A c \in Callers :
         (call[c].op = "PutItems" /\ call'[c] # call[c]) =>
           LET items == call[c].items
               Written(k) == /\ secretExists'
                             /\ k \in DOMAIN secretData'
                             /\ \/ ~secretExists
                                \/ k \notin DOMAIN secretData
                                \/ secretData'[k] # secretData[k]
           IN  \/ /\ \A k \in DOMAIN items :
                        k \in DOMAIN secretData' /\ secretData'[k] = items[k]
                  /\ lastRet'.op = "PutItems"
                  /\ lastRet'.res = "ok"
               \/ /\ \A k \in DOMAIN items : ~Written(k)
                  /\ lastRet'.res # "ok"]_vars

\* A PutItems call of both keys with value "b" returned success after a
\* rejected apply, and both keys hold "b".
C31_Witness ==
    /\ lastRet.op = "PutItems"
    /\ lastRet.res = "ok"
    /\ lastRet.rejected > 0
    /\ secretData = [k \in Keys |-> "b"]

\* C33: the sweeper deletes only expired items.  A step of removeExpiredKeys
\* leaves every item that has no expiry, or an expiry later than the time of
\* the sweep, in the table as it was.
C33_SweepKeepsUnexpired ==
    [][JobStep("expire") =>
         \A k \in DOMAIN kv :
           (kv[k].expires = NoExpiry \/ kv[k].expires > now) =>
             (k \in DOMAIN kv' /\ kv'[k] = kv[k])]_vars

\* A sweep deleted key 1, expired, and key 2, which has no expiry, is in the
\* table.
C33_Witness ==
    /\ swept.res = "ok"
    /\ swept.keys = {1}
    /\ 1 \notin DOMAIN kv
    /\ 2 \in DOMAIN kv
    /\ kv[2].expires = NoExpiry

C35_EmptyLogSeed ==
    /\ [][(pc = "poll" /\ rowid = notSet /\ events = {} /\ rowid' # notSet)
            => (rowid' = -1 /\ watchStarts' = watchStarts + 1)]_vars
    /\ [][seeded # notSet => seeded' = seeded]_vars
    /\ [][(seeded = -1 /\ seedMax = 0)
            => \A e \in events : e \in events' \/ e.id \in Range(delivered')]_vars
    /\ [][(seeded = -1 /\ seedMax = 0 /\ QueryStep /\ polled' = "ok")
            => \A i \in EventIds :
                 (\E j \in Range(lastBatch') : i < j) => i \in Range(delivered')]_vars

\* ---- The live loop with ticks that keep occurring ----

\* The ticker goes on firing and the loop goes on receiving from t.C; a job
\* that has started returns; and of the sweeps and of the polls that are
\* run again and again some succeed.  l.ctx is never cancelled (Next has no
\* Cancel).
TickFair ==
    /\ WF_vars(TimerFire)
    /\ WF_vars(LoopTick)
    /\ WF_vars(removeExpiredKeys \/ removeOldEvents \/ pollEventsSeed
                 \/ pollEventsQuery)
    /\ SF_vars(removeExpiredKeys /\ swept'.res = "ok")
    /\ SF_vars(pollEventsSeed /\ pc' = "query")
    /\ SF_vars(pollEventsQuery /\ polled' = "ok")

\* An engine with events off: a tick runs removeExpiredKeys only.
SweepInit == Init /\ EventsOff

SweepNext ==
    \/ \E k \in Keys, e \in Expiries : LitePut(k, e)
    \/ \E k \in Keys : LiteDelete(k)
    \/ AdvanceClock
    \/ TimerFire
    \/ LoopTick
    \/ removeExpiredKeys

SweepLiveSpec == SweepInit /\ [][SweepNext]_vars /\ TickFair

\* An engine with events on, whose items do not expire.
PollInit == Init /\ ~EventsOff

PollNext ==
    \/ \E k \in Keys : LitePut(k, NoExpiry)
    \/ AdvanceClock
    \/ TimerFire
    \/ LoopTick
    \/ removeExpiredKeys
    \/ removeOldEvents
    \/ pollEventsSeed
    \/ pollEventsQuery

PollLiveSpec == PollInit /\ [][PollNext]_vars /\ TickFair

\* k is in the kv table with an expiry at or before the current time.
IsExpired(k) == k \in DOMAIN kv /\ Expired(kv[k].expires, now)

\* C36 as claimed: in a non-mirror engine every item that is expired is
\* eventually not in the kv table (or not expired any more, when it was
\* written anew).
C36_ExpiredEventuallyGone ==
    \A k \in Keys : (~Mirror /\ IsExpired(k)) ~> ~IsExpired(k)

\* C36, amended: it is so when from some time on no item is written.
C36_ExpiredGoneWhenWritesStop ==
    (<>[][\A k \in DOMAIN kv' : k \in DOMAIN kv /\ kv'[k] = kv[k]]_vars)
      => \A k \in Keys : (~Mirror /\ IsExpired(k)) ~> ~IsExpired(k)

\* With BufferSize 1 a sweep has deleted key 2, the last expired key, and
\* the table is empty.
C36_Witness ==
    /\ ~Mirror
    /\ BufferSize = 1
    /\ swept.res = "ok"
    /\ swept.keys = {2}
    /\ swept.left = {}
    /\ kv = <<>>

\* C37 as claimed: with events enabled, every event appended after the
\* cursor was seeded is eventually pushed to the fan-out buffer.
C37_EventsEventuallyPushed ==
    \A i \in 1..(2 * MaxEvents) :
      (seeded # notSet /\ i > seedMax /\ i \in EventIds) ~> (i \in Range(delivered))

\* ---- Writers on a secret that holds items ----

\* The secret exists and holds items written by earlier calls.
StoredInit ==
    /\ BufferSize = MaxBufferSize
    /\ Mirror = FALSE
    /\ EventsOff = TRUE
    /\ now = 0
    /\ kv = <<>>
    /\ events = {}
    /\ nextId = 1
    /\ rowid = notSet
    /\ pc = "idle"
    /\ ticks = 0
    /\ cancelled = FALSE
    /\ delivered = <<>>
    /\ lastBatch = <<>>
    /\ pushes = 0
    /\ watchStarts = 0
    /\ seeded = notSet
    /\ seedMax = 0
    /\ lost = {}
    /\ swept = NotSwept
    /\ polled = "none"
    /\ unpushed = {}
    /\ secretExists = TRUE
    /\ \E S \in SUBSET Keys :
         /\ S # {}
         /\ secretData = [k \in S |-> "a"]
    /\ resourceVersion = 1
    /\ mu = [p \in Procs |-> 0]
    /\ call = [c \in Callers |-> NoCall]
    /\ acked = secretData
    /\ lastRet = NoRet
    /\ boot = NoBoot
    /\ AliasStart

\* A writer of this process and a writer of another process.
StoredWriters == {1, 3}

StoredNext ==
    \/ \E k \in Keys : Put(1, k, "b") /\ UNCHANGED <<bootVars, aliasVars>>
    \/ \E k \in Keys : Create(1, k, "b") /\ UNCHANGED <<bootVars, aliasVars>>
    \/ \E k \in Keys, v \in RemoteValues : Put(3, k, v) /\ UNCHANGED <<bootVars, aliasVars>>
    \/ \E c \in StoredWriters : updateSecretContentGet(c) /\ UNCHANGED <<bootVars, aliasVars>>
    \/ \E c \in StoredWriters : createSecret(c) /\ UNCHANGED <<bootVars, aliasVars>>
    \/ \E c \in StoredWriters : updateSecret(c) /\ UNCHANGED <<bootVars, aliasVars>>

StoredSpec == StoredInit /\ [][StoredNext]_vars

\* C38 as claimed: a Put or Create of key k that returns success has changed
\* the entry of k only: the apply that is accepted carries every other key
\* of the mapping that was fetched with the value it had, and the call has
\* removed no other key on its way.
C38_PutChangesOnlyItsKey ==
    [][\A c \in Callers :
         (call[c].op \in {"Put", "Create"} /\ call[c].pc = "update"
            /\ call'[c] = NoCall /\ lastRet'.res = "ok") =>
           /\ \A j \in DOMAIN call[c].data \ DOMAIN call[c].items :
                j \in DOMAIN secretData' /\ secretData'[j] = call[c].data[j]
           /\ \A j \in DOMAIN secretData' \ DOMAIN call[c].items :
                j \in DOMAIN call[c].data
           /\ call[c].wiped \subseteq DOMAIN call[c].items]_vars

\* The step in which a Get of key k returns, the entry of k in the mapping
\* being the one the latest accepted write of k left.
GetAfterPut(c, k) ==
    /\ call[c].op = "Get"
    /\ call[c].pc = "get"
    /\ call'[c] = NoCall
    /\ k \in DOMAIN call[c].items
    /\ k \in DOMAIN acked
    /\ secretExists
    /\ k \in DOMAIN secretData
    /\ secretData[k] = acked[k]

RebootInit ==
    /\ BufferSize = MaxBufferSize
    /\ Mirror = FALSE
    /\ EventsOff = TRUE
    /\ now = 0
    /\ \E S \in SUBSET BootKeys :
         kv = [k \in S |-> [expires |-> NoExpiry, value |-> "a"]]
    /\ events = {}
    /\ nextId = 1
    /\ rowid = notSet
    /\ pc = "idle"
    /\ ticks = 0
    /\ cancelled = FALSE
    /\ delivered = <<>>
    /\ lastBatch = <<>>
    /\ pushes = 0
    /\ watchStarts = 0
    /\ seeded = notSet
    /\ seedMax = 0
    /\ lost = {}
    /\ swept = NotSwept
    /\ polled = "none"
    /\ unpushed = {}
    /\ secretExists = TRUE
    /\ \E S \in {{1}, {1, 2}} : secretData = [k \in S |-> "b"]
    /\ resourceVersion = 1
    /\ mu = [p \in Procs |-> 0]
    /\ call = [c \in Callers |-> NoCall]
    /\ acked = secretData
    /\ lastRet = NoRet
    /\ boot = NoBoot
    /\ AliasStart

RebootSpec == RebootInit /\ [][BootNext]_vars

\* C40 as claimed: when the secret exists and holds a value for k, no step
\* of a run of NewProcessStorage changes or removes that value, whatever the
\* fetch of the existence check returns.
C40_BootKeepsExternalState ==
    [][(secretExists /\ boot.pc \in {"exists", "copy", "put"}) =>
         \A k \in DOMAIN secretData :
           secretExists' /\ k \in DOMAIN secretData' /\ secretData'[k] = secretData[k]]_vars

====
